---- MODULE Spec2Model ----
(***************************************************************************)
(* Model of scripts/generate_levelset.py: the Box-World level generator.   *)
(*                                                                         *)
(* main() hands one create_map task per seed to a process pool, waits for  *)
(* all of them, and then writes the records kept in the shared dictionary  *)
(* to train.txt and test.txt.  create_map draws colours and positions from *)
(* a random source, paints an n x n grid and stores its serialisation      *)
(* under the task's seed.                                                  *)
(*                                                                         *)
(* The generator seeded at line 51 is modelled as one of Fanout streams:   *)
(* stream r answers a draw among k candidates with candidate r mod k (the  *)
(* draws for the i-th distractor chain with r + i - 1).  On small grids    *)
(* the position draws of a level generated alone are explored over every   *)
(* candidate instead.                                                      *)
(*                                                                         *)
(* The steps of a worker up to its single write to the shared dictionary   *)
(* touch only the worker's own locals, so they commute with the steps of   *)
(* every other worker: the model lets the pool pick the tasks in every     *)
(* order and runs the local steps of one task at a time.                   *)
(***************************************************************************)
EXTENDS Integers, Sequences, FiniteSets

VARIABLES
    args,               \* the parsed command line (main, line 161)
    mpc,                \* main's position: "map", "write_train", "write_test", "done", "aborted"
    task,               \* seed -> "pending" | "running" | "done" | "failed"
    data,               \* the manager dictionary: seed -> record
    train,              \* lines written to train.txt
    test,               \* lines written to test.txt
    map_idx,            \* main's running index into data
    cur,                \* seed of the task whose locals are shown below (NoSeed: none yet)
    pc,                 \* that task's position in create_map
    rng,                \* that task's generator: the stream it was seeded to
    goal_colors,        \* create_map locals
    distractor_colors,
    distractor_roots,
    possibilities,      \* sampling_pairs locals
    keys,
    locks,
    agent_pos,
    first_key,
    map,                \* the grid, [x][y] -> value
    made                \* history: seed -> the record that task serialised

vars == <<args, mpc, task, data, train, test, map_idx, cur, pc, rng, goal_colors,
          distractor_colors, distractor_roots, possibilities, keys, locks,
          agent_pos, first_key, map, made>>

mainVars == <<args, mpc, task, data, train, test, map_idx, made>>

----------------------------------------------------------------------------
(* Program constants. *)

kNumColors == 12
kGoal == 12
kAgent == 13
kEmpty == 14

num_colors == kNumColors

(* Bounds of the model. *)

MaxN == 5                   \* grid sizes 3..MaxN
WideCells == 12             \* index spaces up to this size are explored over every candidate
MaxGoalLength == 3          \* goal_length 2..MaxGoalLength
MaxNumDistractor == 2
MaxDistractorLength == 3
MaxPairs == 4               \* key/lock pairs per level
MaxTasks == 2               \* num_train + num_test
Fanout == 2                 \* streams of the generator

NoSeed == 0 - 1
NoPos == <<>>

Min(a, b) == IF a < b THEN a ELSE b

Range(f) == {f[i] : i \in DOMAIN f}

----------------------------------------------------------------------------
(* Python and numpy primitives. *)

\* seq[i] for a Python list: 0-based, a negative index counts from the end.
PyIndex(seq, i) == IF i < 0 THEN seq[Len(seq) + i + 1] ELSE seq[i + 1]

\* list(range(lo, hi)) in ascending order.
RECURSIVE PyRange(_, _)
PyRange(lo, hi) == IF lo >= hi THEN <<>> ELSE <<lo>> \o PyRange(lo + 1, hi)

\* seq without its element at (1-based) position i.
RemoveAt(seq, i) == SubSeq(seq, 1, i - 1) \o SubSeq(seq, i + 1, Len(seq))

\* rng.choice(pop, size=size, replace=False) on stream r: size distinct
\* elements of pop, element r mod len(pop) first and then the others in the
\* order of pop.
ChoiceNoReplace(pop, size, r) ==
    IF size = 0 THEN <<>>
    ELSE LET i == (r % Len(pop)) + 1
         IN  <<pop[i]>> \o SubSeq(RemoveAt(pop, i), 1, size - 1)

\* rng.choice(range(m), size=size, replace=True) on stream r
ChoiceReplace(m, size, r) == [i \in 1..size |-> (r + i - 1) % m]

\* "{:0>2}".format(x): the decimal digits of x, padded on the left with 0
\* to a width of at least 2.
RECURSIVE Digits(_)
Digits(x) == IF x < 10 THEN <<x>> ELSE Digits(x \div 10) \o <<x % 10>>

\* Format02 without the padding
FormatPlain(x) == Digits(x)

Format02(x) == IF x < 10 THEN <<0, x>> ELSE Digits(x)

----------------------------------------------------------------------------
(* sampling_pairs *)

InitialPossibilities(n) == 1..(n * (n - 1) - 1)

Decode(idx, n) == <<idx \div (n - 1), idx % (n - 1)>>

\* ToRemove without the indices right of the key
ToRemoveLeftOnly(key, n) ==
    LET key_x == key \div (n - 1)
        key_y == key % (n - 1)
    IN  {key_x * (n - 1) + key_y}
        \cup {key_x * (n - 1) - i + key_y : i \in 1..Min(2, key_y)}

\* ToRemove without the clipping at the ends of the key's row
ToRemoveUnclipped(key, n) == (key - 2)..(key + 2)

ToRemove(key, n) ==
    LET key_x == key \div (n - 1)
        key_y == key % (n - 1)
    IN  {key_x * (n - 1) + key_y}
        \cup {key_x * (n - 1) + i + key_y : i \in 1..Min(2, n - 2 - key_y)}
        \cup {key_x * (n - 1) - i + key_y : i \in 1..Min(2, key_y)}

NumPair(a) == a.goal_length - 1 + a.distractor_length * a.num_distractor

\* keys[key_x, key_y] and the lock cell one column to its right (lines 20-21).
LockOf(key) == <<key[1], key[2] + 1>>

----------------------------------------------------------------------------
(* create_map: painting and serialisation *)

Cells(n) == (0..(n - 1)) \X (0..(n - 1))

\* np.ones((n, n)) * kEmpty
EmptyMap(n) == [c \in Cells(n) |-> kEmpty]

\* lines 74-80, from chain position i on
RECURSIVE PaintGoal(_, _, _, _, _, _)
PaintGoal(m, i, goal_length, gc, ks, ls) ==
    IF i >= goal_length THEN m
    ELSE LET c  == IF i = goal_length - 1 THEN kGoal ELSE PyIndex(gc, i)
             m1 == [m EXCEPT ![PyIndex(ks, i - 1)] = c]
             m2 == [m1 EXCEPT ![PyIndex(ls, i - 1)] = PyIndex(gc, i - 1)]
         IN  PaintGoal(m2, i + 1, goal_length, gc, ks, ls)

\* PaintFirstKey with the last goal colour in place of the first
PaintFirstKeyLast(m, fk, gc) == [m EXCEPT ![fk] = PyIndex(gc, 0 - 1)]

\* line 83
PaintFirstKey(m, fk, gc) == [m EXCEPT ![fk] = PyIndex(gc, 0)]

\* keys[a:b]
PySlice(seq, a, b) == SubSeq(seq, a + 1, Min(b, Len(seq)))

\* the colours of lines 101-102 for the k-th key of key_distractor[1:]
TailLockColor(distractor_color, k) == PyIndex(distractor_color, k)

TailKeyColor(distractor_color, k) == PyIndex(distractor_color, k - 1)

\* lines 100-104, from the k-th element of key_distractor[1:] on
RECURSIVE PaintTail(_, _, _, _)
PaintTail(m, k, tail, distractor_color) ==
    IF k >= Len(tail) THEN m
    ELSE LET key == PyIndex(tail, k)
             m1  == [m EXCEPT ![key] = TailKeyColor(distractor_color, k)]
             m2  == [m1 EXCEPT ![LockOf(key)] = TailLockColor(distractor_color, k)]
         IN  PaintTail(m2, k + 1, tail, distractor_color)

\* KeyDistractor with its slice starting one key early
KeyDistractorEarly(ks, i, goal_length, distractor_length) ==
    PySlice(ks, goal_length - 2 + i * distractor_length,
                goal_length - 2 + (i + 1) * distractor_length)

\* key_distractor of lines 89-95 for chain i (0-based)
KeyDistractor(ks, i, goal_length, distractor_length) ==
    PySlice(ks, goal_length - 1 + i * distractor_length,
                goal_length - 1 + (i + 1) * distractor_length)

\* lines 86-104 for one chain
PaintChain(m, key_distractor, distractor_color, c_root) ==
    LET m1 == [m EXCEPT ![LockOf(key_distractor[1])] = c_root]
        m2 == [m1 EXCEPT ![key_distractor[1]] = PyIndex(distractor_color, 0)]
    IN  PaintTail(m2, 0, Tail(key_distractor), distractor_color)

\* lines 86-104, from chain i on
RECURSIVE PaintDistractors(_, _, _, _, _, _, _)
PaintDistractors(m, i, a, gc, dcs, roots, ks) ==
    IF i >= a.num_distractor THEN m
    ELSE PaintDistractors(
             PaintChain(m, KeyDistractor(ks, i, a.goal_length, a.distractor_length),
                        dcs[i + 1], PyIndex(gc, roots[i + 1])),
             i + 1, a, gc, dcs, roots, ks)

\* line 107
PaintAgent(m, ap) == [m EXCEPT ![ap] = kAgent]

\* map.flatten(): row-major
Flatten(m, n) == [k \in 1..(n * n) |-> m[<<(k - 1) \div n, (k - 1) % n>>]]

\* lines 108-110; the record is kept as the sequence of the tokens that "|" joins
Serialize(m, n) ==
    LET full == <<n, n>> \o Flatten(m, n)
    IN  [k \in 1..Len(full) |-> Format02(full[k])]

----------------------------------------------------------------------------
(* The configurations explored. *)

AllArgs ==
    [num_train : 0..MaxTasks, num_test : 0..MaxTasks, map_size : 3..MaxN,
     goal_length : 2..MaxGoalLength, num_distractor : 0..MaxNumDistractor,
     distractor_length : 0..MaxDistractorLength]

\* distractor_length is varied only where there are distractor chains.
Configs ==
    {a \in AllArgs :
        /\ a.num_train + a.num_test <= MaxTasks
        /\ NumPair(a) <= MaxPairs
        /\ a.num_distractor = 0 => a.distractor_length = 0}

\* The position draws of a level are explored over every candidate when it
\* is generated alone on a grid whose index space has at most WideCells
\* elements.
Wide(a) ==
    /\ a.num_train = 1 /\ a.num_test = 0
    /\ a.map_size * (a.map_size - 1) <= WideCells

\* sample_from_set(s, rng): the outcomes explored for a draw from the set s
\* of flattened indices
Draws(s, r) ==
    IF Wide(args) THEN s
    ELSE {x \in s : Cardinality({y \in s : y < x}) = r % Cardinality(s)}

Seeds == 0..(args.num_train + args.num_test - 1)

EmptyDict == [s \in {} |-> <<>>]

Init ==
    /\ args \in Configs
    /\ mpc = "map"
    /\ task = [s \in 0..(args.num_train + args.num_test - 1) |-> "pending"]
    /\ data = EmptyDict
    /\ made = EmptyDict
    /\ train = <<>>
    /\ test = <<>>
    /\ map_idx = 0
    /\ cur = NoSeed
    /\ pc = "none"
    /\ rng = 0
    /\ goal_colors = <<>>
    /\ distractor_colors = <<>>
    /\ distractor_roots = <<>>
    /\ possibilities = {}
    /\ keys = <<>>
    /\ locks = <<>>
    /\ agent_pos = NoPos
    /\ first_key = NoPos
    /\ map = EmptyDict

----------------------------------------------------------------------------
(* One create_map task *)

\* The pool hands task s to a worker; create_map lines 50-53.
StartTask(s) ==
    /\ mpc = "map"
    /\ task[s] = "pending"
    /\ \A t \in Seeds : task[t] # "running"
    /\ task' = [task EXCEPT ![s] = "running"]
    /\ cur' = s
    /\ pc' = "colors"
    /\ rng' \in 0..(Fanout - 1)
    /\ map' = EmptyMap(args.map_size)
    /\ goal_colors' = <<>>
    /\ distractor_colors' = <<>>
    /\ distractor_roots' = <<>>
    /\ possibilities' = {}
    /\ keys' = <<>>
    /\ locks' = <<>>
    /\ agent_pos' = NoPos
    /\ first_key' = NoPos
    /\ UNCHANGED <<args, mpc, data, train, test, map_idx, made>>

\* DistractorPossibleColors without the filter on goal_colors
AllColors(gc) == PyRange(0, num_colors)

\* line 57-59
DistractorPossibleColors(gc) ==
    LET NotGoal(color) == color \notin Range(gc)
    IN  SelectSeq(PyRange(0, num_colors), NotGoal)

\* lines 54-68, and the entry of sampling_pairs, lines 15-17
DrawColors ==
    /\ pc = "colors"
    /\ LET gc == ChoiceNoReplace(PyRange(0, num_colors), args.goal_length - 1, rng)
       IN  /\ goal_colors' = gc
           /\ distractor_colors' =
                  [i \in 1..args.num_distractor |->
                      ChoiceNoReplace(DistractorPossibleColors(gc),
                                      args.distractor_length, rng + i - 1)]
    /\ distractor_roots' = ChoiceReplace(args.goal_length - 1, args.num_distractor, rng)
    /\ possibilities' = InitialPossibilities(args.map_size)
    /\ keys' = <<>>
    /\ locks' = <<>>
    /\ pc' = "sample_key"
    /\ UNCHANGED <<mainVars, cur, rng, agent_pos, first_key, map>>

\* lines 18-30: one turn of the loop
SampleKey ==
    /\ pc = "sample_key"
    /\ Len(keys) < NumPair(args)
    /\ \E key \in Draws(possibilities, rng) :
         /\ possibilities' = possibilities \ ToRemove(key, args.map_size)
         /\ keys' = Append(keys, Decode(key, args.map_size))
         /\ locks' = Append(locks, LockOf(Decode(key, args.map_size)))
    /\ UNCHANGED <<mainVars, cur, rng, pc, goal_colors, distractor_colors,
                   distractor_roots, agent_pos, first_key, map>>

\* lines 31-32, 35
SampleAgent ==
    /\ pc = "sample_key"
    /\ Len(keys) = NumPair(args)
    /\ \E a \in Draws(possibilities, rng) :
         /\ agent_pos' = Decode(a, args.map_size)
         /\ possibilities' = possibilities \ {a}
    /\ pc' = "sample_first_key"
    /\ UNCHANGED <<mainVars, cur, rng, goal_colors, distractor_colors,
                   distractor_roots, keys, locks, first_key, map>>

\* lines 33, 36-37
SampleFirstKey ==
    /\ pc = "sample_first_key"
    /\ \E f \in Draws(possibilities, rng) : first_key' = Decode(f, args.map_size)
    /\ pc' = "paint"
    /\ UNCHANGED <<mainVars, cur, rng, goal_colors, distractor_colors,
                   distractor_roots, possibilities, keys, locks, agent_pos, map>>

\* SampleFromEmptySet that starts the sampling over instead of raising
SampleFromEmptySetRetry ==
    /\ pc \in {"sample_key", "sample_first_key"}
    /\ possibilities = {}
    /\ possibilities' = InitialPossibilities(args.map_size)
    /\ keys' = <<>>
    /\ locks' = <<>>
    /\ pc' = "sample_key"
    /\ UNCHANGED <<mainVars, cur, rng, goal_colors, distractor_colors, distractor_roots,
                   agent_pos, first_key, map>>

\* lines 10-11: rng.choice(0) raises ValueError, which ends the task
SampleFromEmptySet ==
    /\ pc \in {"sample_key", "sample_first_key"}
    /\ possibilities = {}
    /\ pc' = "raised"
    /\ task' = [task EXCEPT ![cur] = "failed"]
    /\ UNCHANGED <<args, mpc, data, train, test, map_idx, made, cur, rng, goal_colors,
                   distractor_colors, distractor_roots, possibilities, keys, locks,
                   agent_pos, first_key, map>>

PaintedGoalPath == 
    PaintFirstKey(PaintGoal(map, 1, args.goal_length, goal_colors, keys, locks),
                  first_key, goal_colors)

\* lines 73-107
Paint ==
    /\ pc = "paint"
    /\ ~(args.num_distractor > 0 /\ args.distractor_length = 0)
    /\ map' = PaintAgent(PaintDistractors(PaintedGoalPath, 0, args, goal_colors,
                                          distractor_colors, distractor_roots, keys),
                         agent_pos)
    /\ pc' = "store"
    /\ UNCHANGED <<mainVars, cur, rng, goal_colors, distractor_colors, distractor_roots,
                   possibilities, keys, locks, agent_pos, first_key>>

\* line 97: distractor_color[0] of an empty palette raises IndexError
PaintRaises ==
    /\ pc = "paint"
    /\ args.num_distractor > 0 /\ args.distractor_length = 0
    /\ map' = PaintedGoalPath
    /\ pc' = "raised"
    /\ task' = [task EXCEPT ![cur] = "failed"]
    /\ UNCHANGED <<args, mpc, data, train, test, map_idx, made, cur, rng, goal_colors,
                   distractor_colors, distractor_roots, possibilities, keys, locks,
                   agent_pos, first_key>>

\* manager_dict[key] = value
DictSet(d, key, value) ==
    [s \in DOMAIN d \cup {key} |-> IF s = key THEN value ELSE d[s]]

\* StoreKey that numbers the records in the order in which they arrive
StoreKeyByArrival == Cardinality(DOMAIN data)

\* the key of line 111
StoreKey == cur

\* lines 108-111
Store ==
    /\ pc = "store"
    /\ data' = DictSet(data, StoreKey, Serialize(map, args.map_size))
    /\ made' = DictSet(made, cur, Serialize(map, args.map_size))
    /\ task' = [task EXCEPT ![cur] = "done"]
    /\ pc' = "returned"
    /\ UNCHANGED <<args, mpc, train, test, map_idx, cur, rng, goal_colors,
                   distractor_colors, distractor_roots, possibilities, keys, locks,
                   agent_pos, first_key, map>>

----------------------------------------------------------------------------
(* main *)

localVars == <<cur, pc, rng, goal_colors, distractor_colors, distractor_roots,
               possibilities, keys, locks, agent_pos, first_key, map>>

AllFinished == \A s \in Seeds : task[s] \in {"done", "failed"}

\* lines 165-179, 188: p.map returns once every task has ended well
PoolMapReturns ==
    /\ mpc = "map"
    /\ \A s \in Seeds : task[s] = "done"
    /\ mpc' = "write_train"
    /\ map_idx' = 0
    /\ UNCHANGED <<args, task, data, train, test, made, localVars>>

\* line 166: p.map re-raises a task's exception once all tasks have ended
PoolMapRaises ==
    /\ mpc = "map"
    /\ AllFinished
    /\ \E s \in Seeds : task[s] = "failed"
    /\ mpc' = "aborted"
    /\ UNCHANGED <<args, task, data, train, test, map_idx, made, localVars>>

\* the index of lines 191 and 197
LineKey == map_idx

\* lines 190-193: one turn of the loop
WriteTrain ==
    /\ mpc = "write_train"
    /\ Len(train) < args.num_train
    /\ LineKey \in DOMAIN data
    /\ train' = Append(train, data[LineKey])
    /\ map_idx' = map_idx + 1
    /\ UNCHANGED <<args, mpc, task, data, test, made, localVars>>

\* lines 189-195: train.txt is closed, test.txt opened
CloseTrain ==
    /\ mpc = "write_train"
    /\ Len(train) = args.num_train
    /\ mpc' = "write_test"
    /\ UNCHANGED <<args, task, data, train, test, map_idx, made, localVars>>

\* lines 196-199: one turn of the loop
WriteTest ==
    /\ mpc = "write_test"
    /\ Len(test) < args.num_test
    /\ LineKey \in DOMAIN data
    /\ test' = Append(test, data[LineKey])
    /\ map_idx' = map_idx + 1
    /\ UNCHANGED <<args, mpc, task, data, train, made, localVars>>

\* line 195-199: test.txt is closed, main returns
CloseTest ==
    /\ mpc = "write_test"
    /\ Len(test) = args.num_test
    /\ mpc' = "done"
    /\ UNCHANGED <<args, task, data, train, test, map_idx, made, localVars>>

Next ==
    \/ \E s \in Seeds : StartTask(s)
    \/ DrawColors
    \/ SampleKey
    \/ SampleAgent
    \/ SampleFirstKey
    \/ SampleFromEmptySet
    \/ Paint
    \/ PaintRaises
    \/ Store
    \/ PoolMapReturns
    \/ PoolMapRaises
    \/ WriteTrain
    \/ CloseTrain
    \/ WriteTest
    \/ CloseTest

Spec == Init /\ [][Next]_vars

----------------------------------------------------------------------------
(* Vocabulary of the properties. *)

n == args.map_size

\* create_map has painted the whole grid (line 107 is behind it)
Painted == pc \in {"store", "returned"}

\* sampling_pairs has returned
Sampled == pc \in {"paint", "store", "returned"}

\* the task ended in the ValueError of a draw from the empty set
RaisedOnEmptySet == pc = "raised" /\ first_key = NoPos

\* the j-th key (1-based) of distractor chain i (1-based)
ChainKey(i, j) == keys[args.goal_length - 1 + (i - 1) * args.distractor_length + j]

RightOf(cell) == <<cell[1], cell[2] + 1>>

CellsHolding(v) == {c \in DOMAIN map : map[c] = v}

\* the value a two-digit token stands for
TokenValue(tok) == 10 * tok[1] + tok[2]

----------------------------------------------------------------------------
(* C1: in every level whose positions have been sampled, the agent cell, the
   orphan first-key cell and the key cell (x,y) and lock cell (x,y+1) of every
   pair are pairwise distinct cells of the grid. *)
NoPositionCollision ==
    Sampled =>
        /\ Len(keys) = NumPair(args) /\ Len(locks) = NumPair(args)
        /\ \A i \in 1..Len(keys) : locks[i] = RightOf(keys[i])
        /\ Range(keys) \cup Range(locks) \cup {agent_pos, first_key} \subseteq Cells(n)
        /\ Cardinality(Range(keys) \cup Range(locks) \cup {agent_pos, first_key})
              = 2 * NumPair(args) + 2

\* a stored level with two pairs in one row of the grid
WitnessTwoPairsInARow ==
    /\ pc = "returned"
    /\ \E i, j \in 1..Len(keys) : i < j /\ keys[i][1] = keys[j][1]

(* C2: a painted grid holds exactly one AGENT cell and exactly one GOAL cell,
   and every other cell is EMPTY or holds a colour index in [0, 12). *)
OneAgentOneGoal ==
    Painted =>
        /\ Cardinality(CellsHolding(kAgent)) = 1
        /\ Cardinality(CellsHolding(kGoal)) = 1
        /\ \A c \in DOMAIN map :
              map[c] \in {kAgent, kGoal, kEmpty} \cup 0..(num_colors - 1)

\* a stored level with two distractor chains painted after the goal chain
WitnessTwoChainsPainted ==
    /\ pc = "returned"
    /\ args.num_distractor = 2 /\ args.distractor_length >= 1
    /\ args.goal_length = 3

(* C3: the painted goal chain opens in order: the orphan key holds
   goal_colors[0]; the lock of pair i holds the colour of the key collected
   before it (the orphan key for i = 1, else the key of pair i-1); the key of
   pair i holds goal_colors[i], and GOAL for the last pair. *)
GoalChainInOrder ==
    Painted =>
        /\ map[first_key] = PyIndex(goal_colors, 0)
        /\ \A i \in 1..(args.goal_length - 1) :
              /\ map[locks[i]] = IF i = 1 THEN map[first_key] ELSE map[keys[i - 1]]
              /\ map[keys[i]] = IF i < args.goal_length - 1
                                   THEN PyIndex(goal_colors, i) ELSE kGoal

\* a stored level whose goal chain has a coloured key before the GOAL key
WitnessLongGoalChain ==
    /\ pc = "returned"
    /\ args.goal_length = 3
    /\ map[keys[1]] = PyIndex(goal_colors, 1)
    /\ map[keys[2]] = kGoal

(* C4: in every distractor chain the first pair's lock holds goal_colors[root]
   and its key d[0]; every later pair j holds d[j-1] on its lock and d[j] on
   its key. *)
DistractorChainInOrder ==
    Painted =>
        \A i \in 1..args.num_distractor :
            LET d == distractor_colors[i]
            IN  /\ map[RightOf(ChainKey(i, 1))] = PyIndex(goal_colors, distractor_roots[i])
                /\ map[ChainKey(i, 1)] = d[1]
                /\ \A j \in 2..args.distractor_length :
                      /\ map[RightOf(ChainKey(i, j))] = d[j - 1]
                      /\ map[ChainKey(i, j)] = d[j]

(* C5: when sampling_pairs starts drawing, its working set is the whole
   flattened index space [0, n*(n-1)). *)
WorkingSetIsWholeSpace ==
    (pc = "sample_key" /\ keys = <<>>) => possibilities = 0..(n * (n - 1) - 1)

(* C6: each finished task has written exactly the record it made under its
   own seed; train.txt and test.txt are written only when every task has
   finished; and when main is done, line i of train.txt is the record of seed
   i and line i of test.txt the record of seed num_train + i. *)
FilesInSeedOrder ==
    /\ DOMAIN data = {s \in Seeds : task[s] = "done"}
    /\ \A s \in DOMAIN data : data[s] = made[s]
    /\ (mpc \in {"write_train", "write_test", "done"} \/ train # <<>> \/ test # <<>>)
          => \A s \in Seeds : task[s] = "done"
    /\ mpc = "done" =>
          /\ train = [i \in 1..args.num_train |-> made[i - 1]]
          /\ test = [i \in 1..args.num_test |-> made[args.num_train + i - 1]]

\* main is done with one train and one test level that differ
WitnessTrainAndTestWritten ==
    /\ mpc = "done"
    /\ args.num_train = 1 /\ args.num_test = 1
    /\ train[1] # test[1]

(* C7: every colour on a key cell of a distractor chain is outside
   goal_colors, and a goal colour stands on a lock cell of a distractor chain
   only as goal_colors[root] on the lock of the chain's first pair. *)
DistractorIsolation ==
    Painted =>
        \A i \in 1..args.num_distractor :
            \A j \in 1..args.distractor_length :
                /\ map[ChainKey(i, j)] \notin Range(goal_colors)
                /\ map[RightOf(ChainKey(i, j))] \in Range(goal_colors) =>
                      /\ j = 1
                      /\ map[RightOf(ChainKey(i, j))]
                            = PyIndex(goal_colors, distractor_roots[i])

\* a stored level with a distractor chain of several pairs, rooted at the
\* second goal colour
WitnessRootedChain ==
    /\ pc = "returned"
    /\ args.num_distractor >= 1 /\ args.distractor_length >= 2
    /\ args.goal_length = 3
    /\ distractor_roots[1] = 1

(* C8: a draw on the empty working set raises: the task fails at once with
   its grid unpainted and no record stored or serialised under its seed; a
   failed task stays failed (nothing is drawn again); and once a task has
   failed main writes no line to train.txt or test.txt. *)
NoRecordForFailedTask ==
    /\ RaisedOnEmptySet =>
          /\ map = EmptyMap(n)
          /\ task[cur] = "failed"
          /\ cur \notin DOMAIN data /\ cur \notin DOMAIN made
    /\ \A s \in Seeds : task[s] = "failed" =>
          /\ s \notin DOMAIN data
          /\ mpc \in {"map", "aborted"}
          /\ train = <<>> /\ test = <<>>

EmptyDrawStep ==
    /\ (pc \in {"sample_key", "sample_first_key"} /\ possibilities = {}) =>
          /\ pc' = "raised" /\ task'[cur] = "failed"
          /\ UNCHANGED <<map, data, made, train, test, keys, locks, possibilities>>
    /\ \A s \in Seeds : task[s] = "failed" => task'[s] = "failed"
    /\ (pc = "raised" /\ cur' = cur) => UNCHANGED localVars

EmptyDrawAborts == []NoRecordForFailedTask /\ [][EmptyDrawStep]_vars

\* main has aborted after one task of a batch hit the empty set and the
\* other stored its level
WitnessBatchAborted ==
    /\ mpc = "aborted"
    /\ RaisedOnEmptySet
    /\ \E s \in Seeds : task[s] = "done"

(* C9: with goal_length 2 and no distractors the painted grid holds one GOAL
   cell, one AGENT cell, the goal colour on the cell right of the GOAL cell
   and on the orphan key cell and nowhere else, and EMPTY on the other
   n*n - 4 cells; the stored record has 2 + n*n two-digit tokens, the first
   two standing for n and the others for the grid in row-major order. *)
MinimalLevel ==
    (/\ args.goal_length = 2 /\ args.num_distractor = 0 /\ args.distractor_length = 0
     /\ Painted) =>
        /\ CellsHolding(kGoal) = {keys[1]}
        /\ Cardinality(CellsHolding(kAgent)) = 1
        /\ CellsHolding(goal_colors[1]) = {RightOf(keys[1]), first_key}
        /\ Cardinality(CellsHolding(goal_colors[1])) = 2
        /\ Cardinality(CellsHolding(kEmpty)) = n * n - 4
        /\ pc = "returned" =>
              /\ Len(data[cur]) = 2 + n * n
              /\ \A k \in 1..Len(data[cur]) : Len(data[cur][k]) = 2
              /\ TokenValue(data[cur][1]) = n /\ TokenValue(data[cur][2]) = n
              /\ \A x, y \in 0..(n - 1) :
                    TokenValue(data[cur][2 + x * n + y + 1]) = map[<<x, y>>]

\* a 5 x 5 level of seed 0 with goal_length 2 and no distractors is stored
WitnessMinimalLevelStored ==
    /\ args.goal_length = 2 /\ args.num_distractor = 0 /\ args.distractor_length = 0
    /\ n = 5 /\ cur = 0
    /\ pc = "returned"

(* C10: a key draw takes at most min(5, n-1) indices out of the working set,
   and when n*(n-1) - 1 - min(5, n-1)*num_pair >= 2 no draw is ever made on
   the empty set. *)
CapacityBound ==
    /\ pc \in {"sample_key", "sample_first_key"} =>
          Cardinality(possibilities) + (IF pc = "sample_first_key" THEN 1 ELSE 0)
              >= n * (n - 1) - 1 - Min(5, n - 1) * Len(keys)
    /\ n * (n - 1) - 1 - Min(5, n - 1) * NumPair(args) >= 2 => ~RaisedOnEmptySet

\* the bound is met with nothing to spare: the orphan key takes the last index
WitnessLastIndexDrawn ==
    /\ pc = "paint"
    /\ n * (n - 1) - 1 - Min(5, n - 1) * NumPair(args) = 2
    /\ Cardinality(possibilities) = 1

====
